---- MODULE Spec2Model ----
(***************************************************************************)
(* Model of src/proxy/nanogpt_proxy.py: the Flask relay that forwards      *)
(* POST /v1/chat/completions to the first usable NanoGPT endpoint and the  *)
(* GET /status connectivity probe.                                         *)
(*                                                                         *)
(* JSON values, Python's operations on them and Python's exception         *)
(* dispatch are modelled as operators; the two request handlers are the    *)
(* actions of the state machine.  The upstream (what each session.post     *)
(* returns or raises) and the client's request are the inputs, drawn from  *)
(* finite sets.                                                            *)
(***************************************************************************)
EXTENDS Integers, Sequences, FiniteSets, TLC

\* ------------------------------------------------------------------ bounds

\* Length of the longest upstream error body the model feeds in.
LongBodyLen == 5000

\* ------------------------------------------------------- program constants

\* response.text[:200]
TruncLen == 200

\* ------------------------------------------------------------ JSON values
\* A JSON value (what request.get_json() / response.json() / jsonify carry)
\* is a record of one shape; t is the Python type.  A str is either text
\* that came from outside (chars, a sequence of characters) or one of the
\* program's own literals (lit, with num for a formatted-in status code).

JVal(t, lit, num, chars, items, kv) ==
    [t |-> t, lit |-> lit, num |-> num, chars |-> chars, items |-> items, kv |-> kv]

JNull == JVal("null", "", 0, <<>>, <<>>, <<>>)
JBool(b) == JVal("bool", "", IF b THEN 1 ELSE 0, <<>>, <<>>, <<>>)
JNum(n) == JVal("num", "", n, <<>>, <<>>, <<>>)
JStr(chars) == JVal("str", "", 0, chars, <<>>, <<>>)
JLit(lit) == JVal("str", lit, 0, <<>>, <<>>, <<>>)
JFmt(lit, n) == JVal("str", lit, n, <<>>, <<>>, <<>>)
JList(items) == JVal("list", "", 0, <<>>, items, <<>>)
JObj(kv) == JVal("dict", "", 0, <<>>, <<>>, kv)

\* ------------------------------------------------------ Python on values

Min(a, b) == IF a <= b THEN a ELSE b

\* The characters of the key names that are tested against str values.
CharsOf(key) ==
    CASE key = "choices" -> <<"c", "h", "o", "i", "c", "e", "s">>
      [] key = "messages" -> <<"m", "e", "s", "s", "a", "g", "e", "s">>
      [] OTHER -> <<key>>

IsSubstring(needle, hay) ==
    \E i \in 1..(Len(hay) - Len(needle) + 1) :
        SubSeq(hay, i, i + Len(needle) - 1) = needle

HasKey(v, key) == \E i \in 1..Len(v.kv) : v.kv[i][1] = key

Lookup(v, key) == v.kv[CHOOSE i \in 1..Len(v.kv) : v.kv[i][1] = key][2]

\* bool(v)
Truthy(v) ==
    CASE v.t = "null" -> FALSE
      [] v.t = "bool" -> v.num = 1
      [] v.t = "num" -> v.num # 0
      [] v.t = "str" -> Len(v.chars) > 0 \/ v.lit # ""
      [] v.t = "list" -> Len(v.items) > 0
      [] v.t = "dict" -> Len(v.kv) > 0

\* `key in v` is defined for dict (key), list (element) and str (substring).
PyInDefined(v) == v.t \in {"dict", "list", "str"}

PyIn(key, v) ==
    CASE v.t = "dict" -> HasKey(v, key)
      [] v.t = "list" -> \E i \in 1..Len(v.items) : v.items[i] = JStr(CharsOf(key))
      [] v.t = "str" -> IsSubstring(CharsOf(key), v.chars)
      [] OTHER -> FALSE

\* len(v) is defined for str, list and dict.
PyLenDefined(v) == v.t \in {"str", "list", "dict"}

PyLen(v) ==
    CASE v.t = "str" -> Len(v.chars)
      [] v.t = "list" -> Len(v.items)
      [] v.t = "dict" -> Len(v.kv)
      [] OTHER -> 0

\* v.get(key, default); only a dict has .get
PyGet(v, key, default) == IF HasKey(v, key) THEN Lookup(v, key) ELSE default

\* ------------------------------------------------------------- exceptions
\* An exception is the set of classes it is an instance of.

ExcTimeout == {"ReadTimeout", "Timeout", "RequestException", "IOError", "Exception"}
ExcConnectionError == {"ConnectionError", "RequestException", "IOError", "Exception"}
\* requests.exceptions.JSONDecodeError(InvalidJSONError, json.JSONDecodeError)
ExcResponseJson ==
    {"requests.JSONDecodeError", "InvalidJSONError", "RequestException", "IOError",
     "json.JSONDecodeError", "ValueError", "Exception"}
ExcTypeError == {"TypeError", "Exception"}
ExcAttributeError == {"AttributeError", "Exception"}
ExcKeyError == {"KeyError", "LookupError", "Exception"}
ExcIndexError == {"IndexError", "LookupError", "Exception"}
\* requests.exceptions.TooManyRedirects: a RequestException that is neither
\* a Timeout nor a ConnectionError
ExcTooManyRedirects == {"TooManyRedirects", "RequestException", "IOError", "Exception"}
\* werkzeug.exceptions.BadRequest / UnsupportedMediaType
ExcBadRequest == {"BadRequest", "HTTPException", "Exception"}

\* The result of running a piece of the handler: it returns a response to
\* the client, raises, or falls through to the next statement.
Return(status, body) == [kind |-> "return", status |-> status, body |-> body, exc |-> {}]
Raise(exc) == [kind |-> "raise", status |-> 0, body |-> JNull, exc |-> exc]

\* jsonify({'error': ...}) and jsonify({'error': ..., 'message': ...})
ErrorBody(error) == JObj(<< <<"error", JLit(error)>> >>)
ErrorMessageBody(error, message) ==
    JObj(<< <<"error", error>>, <<"message", message>> >>)

\* ---------------------------------------------------------- configuration

Url(scheme, host, path) == [scheme |-> scheme, host |-> host, path |-> path]

NANOGPT_BASE_URL == Url("https", "nano-gpt.com", "/api/v1")

ALTERNATIVE_BASE_URLS ==
    << Url("https", "nano-gpt.com", "/api/v1"),
       Url("http", "nano-gpt.com", "/api/v1"),
       Url("https", "api.nanogpt.com", ""),
       Url("http", "api.nanogpt.com", ""),
       Url("https", "nanogpt.com", "/api/v1"),
       Url("http", "nanogpt.com", "/api/v1") >>

NumCandidates == Len(ALTERNATIVE_BASE_URLS)

\* Mutant of LegacyProbeUrl: the probe falls back to the plain-HTTP legacy URL.
LegacyProbeUrlHttp ==
    [base |-> Url("http", "api.nanogpt.com", ""), endpoint |-> "/v1/chat/completions"]

\* The fallback of the status probe: https://api.nanogpt.com/v1/chat/completions
LegacyProbeUrl ==
    [base |-> Url("https", "api.nanogpt.com", ""), endpoint |-> "/v1/chat/completions"]

DefaultModel == JLit("moonshotai/Kimi-K2-Instruct-0905")

\* 'nano-gpt.com/api/v1' in base_url
IsOfficialFormat(base_url) ==
    base_url.host \in {"nano-gpt.com"} /\ base_url.path = "/api/v1"

EndpointFor(base_url) ==
    IF IsOfficialFormat(base_url) THEN "/chat/completions" ELSE "/v1/chat/completions"

FullUrl(base_url) == [base |-> base_url, endpoint |-> EndpointFor(base_url)]

\* ------------------------------------------------------- exception handlers
\* The except clauses of chat_completions, in source order: the first whose
\* class the exception is an instance of answers.

OuterHandlers ==
    << [cls |-> "Timeout", status |-> 504,
        body |-> ErrorMessageBody(JLit("Request timeout"),
                     JLit("NanoGPT API did not respond within 60 seconds"))],
       [cls |-> "ConnectionError", status |-> 503,
        body |-> ErrorMessageBody(JLit("Connection error"),
                     JLit("Unable to connect to NanoGPT API"))],
       [cls |-> "RequestException", status |-> 500,
        body |-> ErrorMessageBody(JLit("Request failed"), JLit("str(e)"))],
       [cls |-> "json.JSONDecodeError", status |-> 502,
        body |-> ErrorMessageBody(JLit("Invalid response"),
                     JLit("NanoGPT returned invalid JSON"))],
       [cls |-> "Exception", status |-> 500,
        body |-> ErrorMessageBody(JLit("Internal server error"),
                     JLit("An unexpected error occurred"))] >>

FirstHandler(handlers, exc) ==
    handlers[CHOOSE i \in 1..Len(handlers) :
                /\ handlers[i].cls \in exc
                /\ \A j \in 1..(i - 1) : handlers[j].cls \notin exc]

\* Mutant of HandleException: the final `except Exception` clause is missing,
\* so an exception no other clause matches leaves the handler unanswered.
HandleExceptionNoCatchAll(exc) ==
    IF \E i \in 1..(Len(OuterHandlers) - 1) : OuterHandlers[i].cls \in exc
    THEN LET h == FirstHandler(SubSeq(OuterHandlers, 1, Len(OuterHandlers) - 1), exc)
         IN  Return(h.status, h.body)
    ELSE Return(0, JNull)

HandleException(exc) ==
    LET h == FirstHandler(OuterHandlers, exc) IN Return(h.status, h.body)

\* try: ... except ...: what the client gets from a piece of the handler.
Catch(outcome) ==
    IF outcome.kind = "raise" THEN HandleException(outcome.exc) ELSE outcome

\* ------------------------------------------------------ request validation

Proceed(data) == [kind |-> "proceed", status |-> 0, body |-> data, exc |-> {}]

\* d[key] = val on a dict: an existing key keeps its place, a new one is last.
SetItem(d, key, val) ==
    IF HasKey(d, key)
    THEN JObj([i \in 1..Len(d.kv) |->
                 IF d.kv[i][1] = key THEN <<key, val>> ELSE d.kv[i]])
    ELSE JObj(Append(d.kv, <<key, val>>))

\* Mutant of NormaliseRequest: the caller's stream value is kept.
NormaliseRequestKeepStream(request_data) ==
    IF HasKey(request_data, "model")
    THEN request_data
    ELSE SetItem(request_data, "model", DefaultModel)

\* request_data['model'] defaulted, request_data['stream'] = False
NormaliseRequest(request_data) ==
    LET withModel == IF HasKey(request_data, "model")
                     THEN request_data
                     ELSE SetItem(request_data, "model", DefaultModel)
    IN  SetItem(withModel, "stream", JBool(FALSE))

\* The handler up to the candidate loop.  req is what the client sent:
\* parses says whether request.get_json() can decode it, json is the value.
ValidateRequest(req) ==
    IF ~req.parses THEN Raise(ExcBadRequest)
    ELSE IF ~Truthy(req.json) THEN Return(400, ErrorBody("No JSON data provided"))
    ELSE IF req.json.t # "dict" THEN Raise(ExcAttributeError)
    ELSE IF ~PyIn("messages", req.json)
         THEN Return(400, ErrorBody("Missing required field: messages"))
    ELSE Proceed(NormaliseRequest(req.json))

\* -------------------------------------------------------- classification
\* An upstream response as the handler sees it: status_code, text and what
\* json() gives (parses = FALSE: json() raises).  none = TRUE is Python's
\* None, the value of `response` before any call has returned.

Response(status_code, text, parses, json) ==
    [none |-> FALSE, status_code |-> status_code, text |-> text,
     parses |-> parses, json |-> json]

NoResponse ==
    [none |-> TRUE, status_code |-> 0, text |-> <<>>, parses |-> FALSE, json |-> JNull]

\* status_code in [404, 405]
IsNotFound(status_code) == status_code \in {404, 405}

\* Mutant of Truncate: the text is forwarded whole.
TruncateNothing(text) == text

\* response.text[:200]
Truncate(text) == SubSeq(text, 1, Min(Len(text), TruncLen))

AllFailedResponse ==
    Return(502, ErrorMessageBody(JLit("All NanoGPT API configurations failed"),
        JLit("Unable to find a working API endpoint. The NanoGPT service may be down or the API format has changed.")))

\* 'choices' not in response_data or not response_data['choices']
\* The exceptions the test itself raises ({} when it raises none).
ChoicesTestExc(response_data) ==
    IF ~PyInDefined(response_data) THEN ExcTypeError
    ELSE IF PyIn("choices", response_data) /\ response_data.t # "dict" THEN ExcTypeError
    ELSE {}

ChoicesMissing(response_data) ==
    \/ ~PyIn("choices", response_data)
    \/ ~Truthy(Lookup(response_data, "choices"))

\* len(response_data['choices'][0].get('message', {}).get('content', ''))
\* The exceptions the expression raises ({} when it raises none).
ContentLengthExc(response_data) ==
    LET choices == Lookup(response_data, "choices") IN
    IF choices.t \in {"null", "num", "bool"} THEN ExcTypeError
    ELSE IF choices.t = "dict" THEN ExcKeyError
    ELSE IF PyLen(choices) = 0 THEN ExcIndexError
    ELSE IF choices.t = "str" THEN ExcAttributeError
    ELSE LET first == choices.items[1] IN
         IF first.t # "dict" THEN ExcAttributeError
         ELSE LET message == PyGet(first, "message", JObj(<<>>)) IN
              IF message.t # "dict" THEN ExcAttributeError
              ELSE LET content == PyGet(message, "content", JStr(<<>>)) IN
                   IF ~PyLenDefined(content) THEN ExcTypeError ELSE {}

\* if response.status_code == 200: ...
ClassifySuccess(response) ==
    IF ~response.parses THEN Raise(ExcResponseJson)
    ELSE LET response_data == response.json IN
         IF ChoicesTestExc(response_data) # {} THEN Raise(ChoicesTestExc(response_data))
         ELSE IF ChoicesMissing(response_data)
              THEN Return(502, ErrorBody("Invalid response from NanoGPT API"))
         ELSE IF ContentLengthExc(response_data) # {}
              THEN Raise(ContentLengthExc(response_data))
         ELSE Return(200, response_data)

\* Mutant of UpstreamErrorResponse: every other status is answered as 502.
UpstreamErrorAs502(response) ==
    Return(502,
           ErrorMessageBody(JFmt("NanoGPT API error: ", response.status_code),
                            JStr(Truncate(response.text))))

\* else: forward the upstream's status with the truncated body
UpstreamErrorResponse(response) ==
    Return(response.status_code,
           ErrorMessageBody(JFmt("NanoGPT API error: ", response.status_code),
                            JStr(Truncate(response.text))))

\* Mutant of ClassifyResponse: `response is None` is not tested, so reading
\* None.status_code raises.
ClassifyResponseNoNoneTest(response) ==
    IF response.none THEN Raise(ExcAttributeError)
    ELSE IF IsNotFound(response.status_code) THEN AllFailedResponse
    ELSE IF response.status_code = 200 THEN ClassifySuccess(response)
    ELSE IF response.status_code = 401
         THEN Return(401, ErrorMessageBody(JLit("Authentication failed"),
                              JLit("Invalid or expired NanoGPT API key")))
    ELSE IF response.status_code = 429
         THEN Return(429, ErrorMessageBody(JLit("Rate limit exceeded"),
                              JLit("Too many requests to NanoGPT API")))
    ELSE UpstreamErrorResponse(response)

\* Mutant of ClassifyResponse: after the loop only `response is None` is
\* tested, not the kept status.
ClassifyResponseNoNotFoundTest(response) ==
    IF response.none THEN AllFailedResponse
    ELSE IF response.status_code = 200 THEN ClassifySuccess(response)
    ELSE IF response.status_code = 401
         THEN Return(401, ErrorMessageBody(JLit("Authentication failed"),
                              JLit("Invalid or expired NanoGPT API key")))
    ELSE IF response.status_code = 429
         THEN Return(429, ErrorMessageBody(JLit("Rate limit exceeded"),
                              JLit("Too many requests to NanoGPT API")))
    ELSE UpstreamErrorResponse(response)

\* The handler from the end of the candidate loop to its return statement.
ClassifyResponse(response) ==
    IF response.none \/ IsNotFound(response.status_code) THEN AllFailedResponse
    ELSE IF response.status_code = 200 THEN ClassifySuccess(response)
    ELSE IF response.status_code = 401
         THEN Return(401, ErrorMessageBody(JLit("Authentication failed"),
                              JLit("Invalid or expired NanoGPT API key")))
    ELSE IF response.status_code = 429
         THEN Return(429, ErrorMessageBody(JLit("Rate limit exceeded"),
                              JLit("Too many requests to NanoGPT API")))
    ELSE UpstreamErrorResponse(response)

\* ----------------------------------------------------------------- inputs

Digits == <<"0", "1", "2", "3", "4", "5", "6", "7", "8", "9">>

\* A text of n characters; the character at i depends on i.
MkText(n) == [i \in 1..n |-> Digits[(i % 10) + 1]]

TextLens == {0, 1, TruncLen - 1, TruncLen, TruncLen + 1, LongBodyLen}

\* The content of an assistant message in an upstream body.
Hi == JStr(<<"H", "i">>)
Msg(content) == JObj(<< <<"role", JLit("assistant")>>, <<"content", content>> >>)
Choice(message) == JObj(<< <<"index", JNum(0)>>, <<"message", message>> >>)
Completion(choices) == JObj(<< <<"id", JLit("cmpl-1")>>, <<"choices", choices>> >>)

\* Parsed bodies of a 200 response.
SuccessBodies ==
    { JNull, JNum(7), JBool(TRUE), JList(<<>>), JStr(<<"o", "k">>),
      JStr(CharsOf("choices")),
      JList(<<JStr(CharsOf("choices"))>>),
      JObj(<<>>),
      JObj(<< <<"id", JLit("cmpl-1")>> >>),
      Completion(JList(<<>>)),
      Completion(JNull),
      Completion(JStr(<<"a">>)),
      Completion(JObj(<< <<"0", Choice(Msg(Hi))>> >>)),
      Completion(JList(<<Choice(Msg(Hi))>>)),
      Completion(JList(<<Choice(Msg(Hi)), Choice(Msg(JNull))>>)),
      Completion(JList(<<JObj(<<>>)>>)),
      Completion(JList(<<Choice(JObj(<<>>))>>)),
      Completion(JList(<<Choice(JNull)>>)),
      Completion(JList(<<Choice(Msg(JNull))>>)),
      Completion(JList(<<Hi>>)) }

ErrorStatuses == {401, 429, 403, 500, 503, 418, 201, 600}

NotFoundStatuses == {404, 405}

\* What one session.post can give: a response, or an exception.
Responded(response) == [kind |-> "response", response |-> response, exc |-> {}]
Failed(exc) == [kind |-> "raise", response |-> NoResponse, exc |-> exc]

UpstreamResponses ==
    {Response(200, <<>>, TRUE, b) : b \in SuccessBodies}
        \cup {Response(200, MkText(1), FALSE, JNull)}
        \cup {Response(s, MkText(n), FALSE, JNull) : s \in ErrorStatuses, n \in TextLens}
        \cup {Response(s, MkText(1), FALSE, JNull) : s \in NotFoundStatuses}

CallExceptions == {ExcTimeout, ExcConnectionError, ExcTooManyRedirects}

UpstreamResults ==
    {Responded(r) : r \in UpstreamResponses} \cup {Failed(e) : e \in CallExceptions}

\* "Hello", the content of the probe's message
Hello == JStr(<<"H", "e", "l", "l", "o">>)

\* {"role": "user", "content": "Hello"}
UserMsg == JObj(<< <<"role", JLit("user")>>, <<"content", Hello>> >>)

ClientRequest(parses, json) == [parses |-> parses, json |-> json]

\* What a client can POST to /v1/chat/completions.
ClientRequests ==
    { ClientRequest(FALSE, JNull),
      ClientRequest(TRUE, JNull),
      ClientRequest(TRUE, JObj(<<>>)),
      ClientRequest(TRUE, JList(<<UserMsg>>)),
      ClientRequest(TRUE, JObj(<< <<"model", JLit("m")>>, <<"stream", JBool(TRUE)>> >>)),
      ClientRequest(TRUE, JObj(<< <<"model", JLit("m")>>, <<"messages", JList(<<UserMsg>>)>>,
                                  <<"stream", JBool(TRUE)>> >>)),
      ClientRequest(TRUE, JObj(<< <<"model", JLit("m")>>, <<"messages", JList(<<UserMsg>>)>>,
                                  <<"stream", JBool(FALSE)>> >>)),
      ClientRequest(TRUE, JObj(<< <<"messages", JList(<<>>)>> >>)) }

\* ------------------------------------------------------------------ state

VARIABLES
    pc,                \* where the handler is: idle, loop, await, after, probe1, probe2, done
    route,             \* the route being served: "", "chat" or "status"
    req,               \* the client's request to /v1/chat/completions
    request_data,      \* the payload forwarded upstream
    idx,               \* position of the for loop in ALTERNATIVE_BASE_URLS
    response,          \* the handler's `response` variable
    successful_config, \* <<>> (None) or <<base_url, endpoint>>
    calls,             \* every session.post made while serving the request
    inflight,          \* session.post calls that have not returned yet
    results,           \* history: how each call ended (ObservedKind)
    lastResult,        \* history: what the last call returned or raised
    reply              \* what the client is answered

vars == <<pc, route, req, request_data, idx, response, successful_config, calls,
          inflight, results, lastResult, reply>>

NoReply == [status |-> 0, body |-> JNull]
Reply(outcome) == [status |-> outcome.status, body |-> outcome.body]

NoRequest == ClientRequest(FALSE, JNull)
NoResult == [kind |-> "none", response |-> NoResponse, exc |-> {}]

Init ==
    /\ pc = "idle"
    /\ route = ""
    /\ req = NoRequest
    /\ request_data = JNull
    /\ idx = 1
    /\ response = NoResponse
    /\ successful_config = <<>>
    /\ calls = <<>>
    /\ inflight = 0
    /\ results = <<>>
    /\ lastResult = NoResult
    /\ reply = NoReply

\* ---------------------------------------------- POST /v1/chat/completions

Call(url, payload, timeout) == [url |-> url, payload |-> payload, timeout |-> timeout]

\* bool(response): requests.Response.__bool__ is response.ok, which is False
\* exactly when raise_for_status raises: 400 <= status_code < 600.
ResponseTruthy(r) == ~r.none /\ ~(400 <= r.status_code /\ r.status_code < 600)

\* Mutant of BreaksLoop: only the second test, `response and ...`, leaves the
\* loop.
BreaksLoopOnSuccessOnly(r) == ResponseTruthy(r) /\ ~IsNotFound(r.status_code)

\* The two tests that leave the for loop once a call has returned.
BreaksLoop(r) ==
    \/ ~IsNotFound(r.status_code)
    \/ (ResponseTruthy(r) /\ ~IsNotFound(r.status_code))

\* How a call ended, as the upstream saw it: with status 404 or 405, with
\* another status, or with an exception.  (History only; the handler's own
\* test is IsNotFound.)
ObservedKind(u) ==
    IF u.kind = "raise" THEN "exception"
    ELSE IF u.response.status_code = 404 \/ u.response.status_code = 405 THEN "notfound"
    ELSE "authoritative"

\* The request arrives: get_json, validation, defaults; either an early
\* answer or the start of the candidate loop.
ReceiveChat(r) ==
    /\ pc = "idle"
    /\ route' = "chat"
    /\ req' = r
    /\ LET v == ValidateRequest(r) IN
         IF v.kind = "proceed"
         THEN /\ request_data' = v.body
              /\ pc' = "loop"
              /\ reply' = reply
         ELSE /\ request_data' = request_data
              /\ pc' = "done"
              /\ reply' = Reply(Catch(v))
    /\ UNCHANGED <<idx, response, successful_config, calls, inflight, results, lastResult>>

\* session.post to the candidate at idx is issued.
SendCall ==
    /\ pc = "loop"
    /\ idx <= NumCandidates
    /\ calls' = Append(calls, Call(FullUrl(ALTERNATIVE_BASE_URLS[idx]), request_data, 300))
    /\ inflight' = inflight + 1
    /\ pc' = "await"
    /\ UNCHANGED <<route, req, request_data, idx, response, successful_config,
                   results, lastResult, reply>>

\* Mutant of ReceiveResult: an exception of session.post is not caught in the
\* loop; it ends the request through the handler's outer except clauses.
ReceiveResultAbortOnException(u) ==
    /\ pc = "await"
    /\ inflight' = inflight - 1
    /\ results' = Append(results, ObservedKind(u))
    /\ lastResult' = u
    /\ IF u.kind = "raise"
       THEN /\ response' = response
            /\ successful_config' = successful_config
            /\ idx' = idx
            /\ reply' = Reply(HandleException(u.exc))
            /\ pc' = "done"
       ELSE /\ response' = u.response
            /\ reply' = reply
            /\ IF BreaksLoop(u.response)
               THEN /\ successful_config' =
                         <<ALTERNATIVE_BASE_URLS[idx], EndpointFor(ALTERNATIVE_BASE_URLS[idx])>>
                    /\ idx' = idx
                    /\ pc' = "after"
               ELSE /\ successful_config' = successful_config
                    /\ idx' = idx + 1
                    /\ pc' = IF idx = NumCandidates THEN "after" ELSE "loop"
    /\ UNCHANGED <<route, req, request_data, calls>>

\* Mutant of ReceiveResult: after an exception the same candidate is called
\* again.
ReceiveResultRetry(u) ==
    /\ pc = "await"
    /\ inflight' = inflight - 1
    /\ results' = Append(results, ObservedKind(u))
    /\ lastResult' = u
    /\ IF u.kind = "raise"
       THEN /\ response' = response
            /\ successful_config' = successful_config
            /\ idx' = idx
            /\ pc' = "loop"
       ELSE /\ response' = u.response
            /\ IF BreaksLoop(u.response)
               THEN /\ successful_config' =
                         <<ALTERNATIVE_BASE_URLS[idx], EndpointFor(ALTERNATIVE_BASE_URLS[idx])>>
                    /\ idx' = idx
                    /\ pc' = "after"
               ELSE /\ successful_config' = successful_config
                    /\ idx' = idx + 1
                    /\ pc' = IF idx = NumCandidates THEN "after" ELSE "loop"
    /\ UNCHANGED <<route, req, request_data, calls, reply>>

\* session.post returns u or raises it; the rest of the loop body runs.
ReceiveResult(u) ==
    /\ pc = "await"
    /\ inflight' = inflight - 1
    /\ results' = Append(results, ObservedKind(u))
    /\ lastResult' = u
    /\ IF u.kind = "raise"
       THEN \* except Exception: continue
            /\ response' = response
            /\ successful_config' = successful_config
            /\ idx' = idx + 1
            /\ pc' = IF idx = NumCandidates THEN "after" ELSE "loop"
       ELSE /\ response' = u.response
            /\ IF BreaksLoop(u.response)
               THEN /\ successful_config' =
                         <<ALTERNATIVE_BASE_URLS[idx], EndpointFor(ALTERNATIVE_BASE_URLS[idx])>>
                    /\ idx' = idx
                    /\ pc' = "after"
               ELSE /\ successful_config' = successful_config
                    /\ idx' = idx + 1
                    /\ pc' = IF idx = NumCandidates THEN "after" ELSE "loop"
    /\ UNCHANGED <<route, req, request_data, calls, reply>>

\* After the loop: the 502 test, the classification and the except clauses.
Classify ==
    /\ pc = "after"
    /\ reply' = Reply(Catch(ClassifyResponse(response)))
    /\ pc' = "done"
    /\ UNCHANGED <<route, req, request_data, idx, response, successful_config, calls,
                   inflight, results, lastResult>>

\* ------------------------------------------------------------ GET /status

TestRequest ==
    JObj(<< <<"model", DefaultModel>>,
            <<"messages", JList(<<UserMsg>>)>>,
            <<"max_tokens", JNum(1)>>,
            <<"temperature", JNum(0)>> >>)

PrimaryProbeUrl == [base |-> NANOGPT_BASE_URL, endpoint |-> "/chat/completions"]

\* The answer when a probe call returned (timestamp and response time left out).
StatusAnswer(r) ==
    Return(200,
        JObj(<< <<"proxy_status", JLit("operational")>>,
                <<"nanogpt_connectivity",
                  IF r.status_code = 200 THEN JLit("success") ELSE JLit("failed")>>,
                <<"nanogpt_status_code", JNum(r.status_code)>>,
                <<"api_key_configured", JBool(TRUE)>> >>))

\* Mutant of StatusFailedAnswer: the failure is answered as 503.
StatusFailedAnswer503 ==
    Return(503,
        JObj(<< <<"proxy_status", JLit("operational")>>,
                <<"nanogpt_connectivity", JLit("failed")>>,
                <<"error", JLit("Both API formats failed: str(e)")>>,
                <<"api_key_configured", JBool(TRUE)>> >>))

\* The answer when both probe calls raised.
StatusFailedAnswer ==
    Return(200,
        JObj(<< <<"proxy_status", JLit("operational")>>,
                <<"nanogpt_connectivity", JLit("failed")>>,
                <<"error", JLit("Both API formats failed: str(e)")>>,
                <<"api_key_configured", JBool(TRUE)>> >>))

\* The request arrives and the first probe call is issued.
ReceiveStatus ==
    /\ pc = "idle"
    /\ route' = "status"
    /\ calls' = Append(calls, Call(PrimaryProbeUrl, TestRequest, 10))
    /\ inflight' = inflight + 1
    /\ pc' = "probe1"
    /\ UNCHANGED <<req, request_data, idx, response, successful_config, results,
                   lastResult, reply>>

\* The first probe call returns u, or raises and the legacy URL is called.
ProbeResult(u) ==
    /\ pc = "probe1"
    /\ results' = Append(results, ObservedKind(u))
    /\ lastResult' = u
    /\ IF u.kind = "raise"
       THEN /\ calls' = Append(calls, Call(LegacyProbeUrl, TestRequest, 10))
            /\ inflight' = inflight
            /\ response' = response
            /\ reply' = reply
            /\ pc' = "probe2"
       ELSE /\ calls' = calls
            /\ inflight' = inflight - 1
            /\ response' = u.response
            /\ reply' = Reply(StatusAnswer(u.response))
            /\ pc' = "done"
    /\ UNCHANGED <<route, req, request_data, idx, successful_config>>

\* The legacy probe call returns u or raises.
LegacyProbeResult(u) ==
    /\ pc = "probe2"
    /\ inflight' = inflight - 1
    /\ results' = Append(results, ObservedKind(u))
    /\ lastResult' = u
    /\ IF u.kind = "raise"
       THEN /\ response' = response
            /\ reply' = Reply(StatusFailedAnswer)
       ELSE /\ response' = u.response
            /\ reply' = Reply(StatusAnswer(u.response))
    /\ pc' = "done"
    /\ UNCHANGED <<route, req, request_data, idx, successful_config, calls>>

\* ------------------------------------------------------------ the server

\* The request is answered; the server takes the next one with fresh locals.
NextRequest ==
    /\ pc = "done"
    /\ pc' = "idle"
    /\ route' = ""
    /\ req' = NoRequest
    /\ request_data' = JNull
    /\ idx' = 1
    /\ response' = NoResponse
    /\ successful_config' = <<>>
    /\ calls' = <<>>
    /\ inflight' = 0
    /\ results' = <<>>
    /\ lastResult' = NoResult
    /\ reply' = NoReply

Next ==
    \/ \E r \in ClientRequests : ReceiveChat(r)
    \/ SendCall
    \/ \E u \in UpstreamResults : ReceiveResult(u)
    \/ Classify
    \/ ReceiveStatus
    \/ \E u \in UpstreamResults : ProbeResult(u)
    \/ \E u \in UpstreamResults : LegacyProbeResult(u)
    \/ NextRequest

Spec == Init /\ [][Next]_vars

\* The handler runs to its return statement, and every session.post returns
\* or raises (each carries a timeout).
FairSpec ==
    /\ Spec
    /\ WF_vars(SendCall)
    /\ WF_vars(\E u \in UpstreamResults : ReceiveResult(u))
    /\ WF_vars(Classify)
    /\ WF_vars(\E u \in UpstreamResults : ProbeResult(u))
    /\ WF_vars(\E u \in UpstreamResults : LegacyProbeResult(u))

\* ================================================================ claims

\* POST /v1/chat/completions has been answered.
ChatDone == pc = "done" /\ route = "chat"

\* GET /status has been answered.
StatusDone == pc = "done" /\ route = "status"

\* The request passed validation (the candidate loop was entered).
ValidRequest == ValidateRequest(req).kind = "proceed"

\* The last call made returned a status outside {404, 405}.
LastAuthoritative == results # <<>> /\ results[Len(results)] = "authoritative"

\* The status and body the last call returned.
LastStatus == lastResult.response.status_code
LastBody == lastResult.response.json

\* A parsed body that is an object holding a non-empty `choices` list.
HoldsNonEmptyChoicesList(b) ==
    /\ b.t = "dict"
    /\ HasKey(b, "choices")
    /\ Lookup(b, "choices").t = "list"
    /\ Len(Lookup(b, "choices").items) > 0

\* C1: if the first K candidates (0 <= K < NumCandidates - 1) return 404 or
\* 405 and candidate K+1 returns 200 with a JSON body holding a non-empty
\* choices list, candidate K+1 is recorded in successful_config and the
\* client is answered 200.
C1_FallbackToFirstSuccess ==
    (/\ ChatDone
     /\ Len(results) \in 1..(NumCandidates - 1)
     /\ \A i \in 1..(Len(results) - 1) : results[i] = "notfound"
     /\ LastAuthoritative
     /\ LastStatus = 200
     /\ lastResult.response.parses
     /\ HoldsNonEmptyChoicesList(LastBody))
    => (/\ successful_config =
             <<ALTERNATIVE_BASE_URLS[Len(results)],
               EndpointFor(ALTERNATIVE_BASE_URLS[Len(results)])>>
        /\ reply.status = 200)

\* C2: for a valid request, if every call ended in 404/405 or in an
\* exception, the client is answered 502 with the no-working-endpoint body.
C2_AllFailedIs502 ==
    (/\ ChatDone
     /\ ValidRequest
     /\ \A i \in 1..Len(results) : results[i] \in {"notfound", "exception"})
    => (/\ reply.status = 502
        /\ Lookup(reply.body, "error") = JLit("All NanoGPT API configurations failed"))

\* C2 witness: all six candidates failed, some with 404/405 and some with
\* an exception, the last one with an exception, and the answer is 502.
C2_Witness ==
    /\ ChatDone
    /\ Len(results) = NumCandidates
    /\ \A i \in 1..Len(results) : results[i] \in {"notfound", "exception"}
    /\ \E i \in 1..Len(results) : results[i] = "notfound"
    /\ results[NumCandidates] = "exception"
    /\ reply.status = 502

\* A 200 body of the chat-completion shape: an object whose choices is a
\* non-empty list, whose first choice is an object, with a message (when
\* present) that is an object and a content (when present) that is a string.
WellFormedBody(r) ==
    /\ r.parses
    /\ HoldsNonEmptyChoicesList(r.json)
    /\ LET first == Lookup(r.json, "choices").items[1] IN
         /\ first.t = "dict"
         /\ HasKey(first, "message") =>
               /\ Lookup(first, "message").t = "dict"
               /\ HasKey(Lookup(first, "message"), "content") =>
                     Lookup(Lookup(first, "message"), "content").t = "str"

\* C3: every authoritative status is classified: 200 with a well-formed body
\* is answered 200, 401 is answered 401 (authentication failed), 429 is
\* answered 429 (rate limit), any other status is forwarded as itself; in
\* every case exactly one answer is given.
C3_ClassificationTotal ==
    (ChatDone /\ LastAuthoritative)
    => (/\ reply.status # 0
        /\ (LastStatus = 200 /\ WellFormedBody(lastResult.response)) => reply.status = 200
        /\ LastStatus = 401 =>
              /\ reply.status = 401
              /\ Lookup(reply.body, "error") = JLit("Authentication failed")
        /\ LastStatus = 429 =>
              /\ reply.status = 429
              /\ Lookup(reply.body, "error") = JLit("Rate limit exceeded")
        /\ LastStatus \notin {200, 401, 429} =>
              /\ reply.status = LastStatus
              /\ Lookup(reply.body, "error") = JFmt("NanoGPT API error: ", LastStatus))

\* C3 witness: the third candidate answered 418 and the client got 418.
C3_Witness ==
    /\ ChatDone
    /\ LastAuthoritative
    /\ Len(results) = 3
    /\ LastStatus = 418
    /\ reply.status = 418

\* The client's body parses to a JSON value that has no `messages` field.
MissingMessages(r) == r.parses /\ ~(r.json.t = "dict" /\ HasKey(r.json, "messages"))

\* C4: a request whose JSON body has no messages field is answered 400 and
\* no outbound call is made while it is served.
C4_MissingMessagesRejected ==
    (route = "chat" /\ MissingMessages(req))
    => (/\ calls = <<>>
        /\ inflight = 0
        /\ pc = "done"
        /\ reply.status = 400)

\* The parsed body has no `choices` key, or its `choices` is an empty list.
NoChoices(b) ==
    IF b.t = "dict" /\ HasKey(b, "choices")
    THEN Lookup(b, "choices") = JList(<<>>)
    ELSE TRUE

\* C5: when the authoritative candidate returns 200 and the parsed body has
\* no choices key, or has an empty choices list, the client is answered 502
\* (invalid response), not 200.
C5_EmptyChoicesIsMalformed ==
    (/\ ChatDone
     /\ LastAuthoritative
     /\ LastStatus = 200
     /\ lastResult.response.parses
     /\ NoChoices(LastBody))
    => (/\ reply.status = 502
        /\ Lookup(reply.body, "error") = JLit("Invalid response from NanoGPT API"))

\* The payload of an outbound call has stream = false.
StreamIsFalse(payload) ==
    /\ payload.t = "dict"
    /\ HasKey(payload, "stream")
    /\ Lookup(payload, "stream") = JBool(FALSE)

\* C6: every outbound call of the chat path carries stream = false,
\* whatever the caller sent.
C6_StreamForcedFalse ==
    route = "chat" => \A i \in 1..Len(calls) : StreamIsFalse(calls[i].payload)

\* C6 witness: the caller sent stream = true and two candidates were called.
C6_Witness ==
    /\ route = "chat"
    /\ HasKey(req.json, "stream")
    /\ Lookup(req.json, "stream") = JBool(TRUE)
    /\ Len(calls) >= 2
    /\ StreamIsFalse(calls[2].payload)

\* C7: for an authoritative status other than 200, 401, 429 the forwarded
\* message is the first min(len(body), 200) characters of the upstream body.
C7_MessageTruncatedTo200 ==
    (ChatDone /\ LastAuthoritative /\ LastStatus \notin {200, 401, 429})
    => LET text == lastResult.response.text
           message == Lookup(reply.body, "message").chars
       IN  /\ Len(message) = (IF Len(text) <= 200 THEN Len(text) ELSE 200)
           /\ \A i \in 1..Len(message) : message[i] = text[i]

\* C7 witness: a body of LongBodyLen characters was forwarded as 200.
C7_Witness ==
    /\ ChatDone
    /\ LastAuthoritative
    /\ LastStatus = 500
    /\ Len(lastResult.response.text) = LongBodyLen
    /\ LongBodyLen > 200
    /\ Len(Lookup(reply.body, "message").chars) = 200

\* nanogpt_connectivity in the answer of GET /status
Connectivity == Lookup(reply.body, "nanogpt_connectivity")

\* C8: GET /status is always answered 200; when every probe call raised the
\* body says failed, and it says success only when the probe response had
\* status 200.
C8_StatusAlways200 ==
    StatusDone
    => (/\ reply.status = 200
        /\ (\A i \in 1..Len(results) : results[i] = "exception")
              => Connectivity = JLit("failed")
        /\ Connectivity = JLit("success")
              => (lastResult.kind = "response" /\ LastStatus = 200)
        /\ Connectivity \in {JLit("success"), JLit("failed")})

\* C8 witness: both probe calls raised and the answer is 200 with failed.
C8_Witness ==
    /\ StatusDone
    /\ Len(calls) = 2
    /\ results = <<"exception", "exception">>
    /\ reply.status = 200
    /\ Connectivity = JLit("failed")

\* C9: if the call to the final candidate raised and no earlier candidate
\* was authoritative, a timeout is answered 504 and a connection failure 503.
C9_FinalTransportErrorSurfaced ==
    (/\ ChatDone
     /\ Len(results) = NumCandidates
     /\ \A i \in 1..Len(results) : results[i] \in {"notfound", "exception"}
     /\ results[NumCandidates] = "exception")
    => (/\ "Timeout" \in lastResult.exc => reply.status = 504
        /\ "ConnectionError" \in lastResult.exc => reply.status = 503)

\* C10: when the authoritative candidate returns 200 and its body cannot be
\* parsed as JSON, the client is answered 502.
C10_UnparseableIsMalformed ==
    (/\ ChatDone
     /\ LastAuthoritative
     /\ LastStatus = 200
     /\ ~lastResult.response.parses)
    => reply.status = 502

\* The client's body cannot be decoded by get_json, or decodes to nothing.
NoJsonData(r) == ~r.parses \/ r.json = JNull

\* C11: a request whose body does not parse as JSON (get_json fails or
\* yields nothing) is answered 400 and no outbound call is made.
C11_UnparseableRequestIs400 ==
    (route = "chat" /\ NoJsonData(req))
    => (/\ pc = "done"
        /\ calls = <<>>
        /\ reply.status = 400)

\* C12: every authoritative 200 whose body parses and holds a non-empty
\* choices list is answered 200 with the parsed body verbatim, whatever the
\* shape of the first choice.
C12_MetricNeverAltersOutcome ==
    (/\ ChatDone
     /\ LastAuthoritative
     /\ LastStatus = 200
     /\ lastResult.response.parses
     /\ HoldsNonEmptyChoicesList(LastBody))
    => (/\ reply.status = 200
        /\ reply.body = LastBody)

\* C13: every answer of POST /v1/chat/completions other than 200 has both an
\* error field and a message field.
C13_ErrorsCarryErrorAndMessage ==
    (ChatDone /\ reply.status # 200)
    => (/\ reply.body.t = "dict"
        /\ HasKey(reply.body, "error")
        /\ HasKey(reply.body, "message"))

\* The status codes the handler's own return statements give.
CategorisedStatuses == {200, 400, 401, 429, 500, 502, 503, 504}

\* The answer is one of the categorised outcomes, or the forwarded status of
\* the authoritative upstream response.
CategorisedReply ==
    \/ reply.status \in CategorisedStatuses
    \/ (LastAuthoritative /\ reply.status = LastStatus /\ reply.status # 0)

\* C14: every request to POST /v1/chat/completions, whatever each call
\* returns or raises, eventually ends; it ends with an answer of the handler
\* that is one of the categorised outcomes; and once answered the answer is
\* not replaced (exactly one response).
C14_EveryRequestAnswered ==
    /\ (route = "chat") ~> ChatDone
    /\ [](ChatDone => CategorisedReply)
    /\ [][(route = "chat" /\ reply # NoReply) => (pc' = "idle" /\ pc = "done")]_vars

\* C14 witness: all six candidates were called, the last one returned a 200
\* whose handling raised, and the handler answered 500 itself.
C14_Witness ==
    /\ ChatDone
    /\ Len(calls) = NumCandidates
    /\ LastAuthoritative
    /\ LastStatus = 200
    /\ reply.status = 500

\* The locals of the chat path are as they were before the request.
ChatStateUntouched ==
    /\ req = NoRequest
    /\ request_data = JNull
    /\ idx = 1
    /\ successful_config = <<>>

\* https://nano-gpt.com/api/v1/chat/completions
PrimaryEndpoint ==
    [base |-> [scheme |-> "https", host |-> "nano-gpt.com", path |-> "/api/v1"],
     endpoint |-> "/chat/completions"]

\* https://api.nanogpt.com/v1/chat/completions
LegacyEndpoint ==
    [base |-> [scheme |-> "https", host |-> "api.nanogpt.com", path |-> ""],
     endpoint |-> "/v1/chat/completions"]

\* C15 (as stated): while GET /status is served, every outbound call goes to
\* the primary endpoint, also when the primary call raised, and the state of
\* the chat path is not changed.
C15_ProbePrimaryOnly ==
    route = "status"
    => (/\ \A i \in 1..Len(calls) : calls[i].url = PrimaryEndpoint
        /\ ChatStateUntouched)

\* C15 (amended): the probe's first call goes to the primary endpoint; a
\* second call is made only after the first raised, and goes to
\* https://api.nanogpt.com/v1/chat/completions; there is no third call, and
\* the state of the chat path is not changed.
C15_ProbePrimaryThenLegacy ==
    route = "status"
    => (/\ Len(calls) \in {1, 2}
        /\ calls[1].url = PrimaryEndpoint
        /\ Len(calls) = 2 => (calls[2].url = LegacyEndpoint /\ results[1] = "exception")
        /\ Len(results) >= 1 /\ results[1] # "exception" => Len(calls) = 1
        /\ ChatStateUntouched)

\* C15 witness: the primary call raised, the legacy URL was called and
\* answered 200.
C15_Witness ==
    /\ StatusDone
    /\ Len(calls) = 2
    /\ calls[2].url = LegacyEndpoint
    /\ results = <<"exception", "authoritative">>
    /\ LastStatus = 200
    /\ Connectivity = JLit("success")

\* The messages of a payload or request body are present and non-empty.
MessagesNonEmpty(v) ==
    /\ v.t = "dict"
    /\ HasKey(v, "messages")
    /\ PyLen(Lookup(v, "messages")) > 0

\* The client's body is an object whose messages field is present and empty.
EmptyMessages(r) ==
    /\ r.parses
    /\ r.json.t = "dict"
    /\ HasKey(r.json, "messages")
    /\ PyLen(Lookup(r.json, "messages")) = 0

\* C16: every request forwarded upstream has a non-empty messages sequence:
\* a request whose messages field is present but empty is answered 400 and
\* causes no outbound call.
C16_EmptyMessagesRejected ==
    route = "chat"
    => (/\ \A i \in 1..Len(calls) : MessagesNonEmpty(calls[i].payload)
        /\ EmptyMessages(req) => (pc = "done" /\ reply.status = 400 /\ calls = <<>>))

\* The call of candidate i raised and candidate i is not the last one.
NonFinalException(i) ==
    i \in 1..Len(results) /\ i < NumCandidates /\ results[i] = "exception"

\* C17: an exception raised by the call to a non-final candidate does not
\* end the request: the handler goes on to the next candidate in order, and
\* when a later candidate is the first to return a status outside
\* {404, 405}, the answer is the classification of that candidate's response.
C17_ExceptionFallsThrough ==
    route = "chat"
    => (/\ \A i \in 1..Len(results) :
              NonFinalException(i)
              => \/ (Len(calls) = i /\ pc = "loop" /\ idx = i + 1 /\ reply = NoReply)
                 \/ (Len(calls) > i /\ calls[i + 1].url = FullUrl(ALTERNATIVE_BASE_URLS[i + 1]))
        /\ (/\ pc = "done"
            /\ LastAuthoritative
            /\ \E i \in 1..(Len(results) - 1) : results[i] = "exception")
           => reply = Reply(Catch(ClassifyResponse(lastResult.response))))

\* C17 witness: the first two candidates raised, the third answered 401 and
\* the client got 401.
C17_Witness ==
    /\ ChatDone
    /\ results = <<"exception", "exception", "authoritative">>
    /\ LastStatus = 401
    /\ reply.status = 401


\* C18: once a candidate has returned a status outside {404, 405}, no later
\* candidate is contacted: that result is the last one of the request, no
\* further call is made, and the response that is classified, and whose
\* classification is the answer, is that candidate's response.
C18_AuthoritativeStopsIteration ==
    route = "chat"
    => \A i \in 1..Len(results) :
          results[i] = "authoritative"
          => /\ i = Len(results)
             /\ Len(calls) = i
             /\ inflight = 0
             /\ pc \in {"after", "done"}
             /\ response = lastResult.response
             /\ successful_config # <<>>
             /\ successful_config[1] = ALTERNATIVE_BASE_URLS[i]
             /\ pc = "done" => reply = Reply(Catch(ClassifyResponse(lastResult.response)))

\* C18 witness: the first candidate answered 404, the second 503; the request
\* ended after two calls with the second candidate's 503.
C18_Witness ==
    /\ ChatDone
    /\ results = <<"notfound", "authoritative">>
    /\ Len(calls) = 2
    /\ LastStatus = 503
    /\ reply.status = 503

\* C19: candidates are contacted one at a time in list order: at most one
\* call is outstanding, call i goes to candidate i, call i+1 is made only
\* after call i ended with 404/405 or an exception, no candidate is called
\* twice and there are never more calls than candidates.
C19_SequentialInOrderOnce ==
    route = "chat"
    => /\ inflight \in {0, 1}
       /\ inflight = Len(calls) - Len(results)
       /\ Len(calls) <= NumCandidates
       /\ \A i \in 1..Len(calls) : calls[i].url = FullUrl(ALTERNATIVE_BASE_URLS[i])
       /\ \A i, j \in 1..Len(calls) : i # j => calls[i].url # calls[j].url
       /\ \A i \in 2..Len(calls) : results[i - 1] \in {"notfound", "exception"}

\* C19 witness: all six candidates were called, one after the other, and the
\* request ended.
C19_Witness ==
    /\ ChatDone
    /\ Len(calls) = NumCandidates
    /\ results = <<"notfound", "exception", "notfound", "exception", "notfound", "exception">>
    /\ inflight = 0

\* The answer was built by the branch that forwards the upstream's status.
ReachedForwardBranch ==
    /\ reply.body.t = "dict"
    /\ HasKey(reply.body, "error")
    /\ Lookup(reply.body, "error").lit = "NanoGPT API error: "

\* C20: the chat endpoint never answers 404 or 405: a request whose
\* candidates ended with 404/405 or exceptions only is answered 502, and the
\* branch forwarding the upstream's status is reached only with a status
\* outside {200, 401, 429, 404, 405}.
C20_NeverAnswersNotFound ==
    (route = "chat" /\ pc = "done")
    => /\ reply.status \notin {404, 405}
       /\ (results # <<>> /\ ~LastAuthoritative) => reply.status = 502
       /\ ReachedForwardBranch
          => /\ Lookup(reply.body, "error").num = reply.status
             /\ reply.status \notin {200, 401, 429, 404, 405}

\* C20 witness: the first candidate answered 404, the others raised; the
\* kept 404 response was answered as 502.
C20_Witness ==
    /\ ChatDone
    /\ results = <<"notfound", "exception", "exception", "exception", "exception", "exception">>
    /\ ~response.none
    /\ response.status_code \in {404, 405}
    /\ reply.status = 502

====
